---------------------------- MODULE Spec2Model ----------------------------
(***************************************************************************)
(* A model of RealtimeTenVad (src/index.js): the streaming segmentation   *)
(* state machine that frames an unbounded sample stream into 256-sample   *)
(* frames, classifies each frame and emits onSpeechStart / onSpeechEnd /  *)
(* onVADMisfire.                                                           *)
(*                                                                         *)
(* Encodings.                                                              *)
(*  - A Float32Array is held run-length encoded: a sequence of runs       *)
(*    <<n, v>> (n > 0 samples of value v), adjacent runs having different *)
(*    values, so that two arrays are equal iff their encodings are.  The  *)
(*    F32* operators are exact on the decoded arrays.                     *)
(*  - A sample value is an integer in units of 1/AmpScale of full scale;  *)
(*    AmpScale is a power of two, so that every sample of the model is a  *)
(*    Float32 value and the sums of squares of line 244 are exact.        *)
(*  - A configured threshold is an integer in units of 1/PScale and       *)
(*    probSmoothing an integer in units of 1/AlphaScale: the number held  *)
(*    by the program is the double nearest to that decimal.  A            *)
(*    probability answered by the classifier is a Float32, given as the   *)
(*    one nearest to a decimal in units of 1/PScale.                      *)
(*  - A double is a record [m, e] standing for m * 2^e, m an odd natural  *)
(*    number of at most DoubleBits bits (0 is [m = 0, e = 0]); the sums   *)
(*    and products of line 238 are rounded as IEEE 754 rounds them, to    *)
(*    the nearest double, ties to the even one.  The numbers of the model *)
(*    are not negative and far from the ends of the exponent range.       *)
(*  - A duration in ms is an integer.                                      *)
(*  - A frame is a record [data, idx, voice]: the view passed to          *)
(*    _processFrame, the value _frameIndex had when it was processed (-1  *)
(*    for a frame that flush() synthesizes and that never passes          *)
(*    _advanceState) and the isVoice decision made for it.                *)
(*  - A callback given to the constructor is "returns" or "throws": what  *)
(*    it does when it is called.                                          *)
(*  - An exception that escapes a public call is the field thrown of the  *)
(*    state the call leaves ("none" when the call returned).              *)
(*  - The WASM classifier is outside the repository: each call returns    *)
(*    an outcome [rc, p, flag] chosen by the environment.                 *)
(*  - _int16Frame and the WASM pointers are scratch for the classifier    *)
(*    call and carry nothing from one frame to the next; they are not     *)
(*    state of the model.                                                  *)
(***************************************************************************)
EXTENDS Integers, Sequences, FiniteSets, TLC

SAMPLE_RATE == 16000

HOP_SIZE == 256

\* energyGateDb is << >> for null (no gate) and <<db>> for a number.
Null == << >>

(***************************************************************************)
(* Arithmetic helpers                                                      *)
(***************************************************************************)
Min(a, b) == IF a < b THEN a ELSE b

Max(a, b) == IF a > b THEN a ELSE b

\* Math.round(n / d) for d > 0: the nearest integer, halves toward +infinity.
MathRound(n, d) == (2 * n + d) \div (2 * d)

RECURSIVE Pow10(_)
Pow10(k) == IF k <= 0 THEN 1 ELSE 10 * Pow10(k - 1)

RECURSIVE Pow2(_)
Pow2(k) == IF k <= 0 THEN 1 ELSE 2 * Pow2(k - 1)

\* 2^k modulo m.
RECURSIVE Pow2Mod(_, _)
Pow2Mod(k, m) == IF k <= 0 THEN 1 % m ELSE (2 * Pow2Mod(k - 1, m)) % m

\* The exponent of the leading bit of n >= 1.
RECURSIVE Log2(_)
Log2(n) == IF n < 2 THEN 0 ELSE 1 + Log2(n \div 2)

\* Units: sample values, probabilities, probSmoothing.
AmpScale == Pow2(10)

PScale == Pow10(8)

AlphaScale == Pow10(1)

(***************************************************************************)
(* Natural numbers of any size                                             *)
(***************************************************************************)
\* A natural number is the sequence of its digits in base LimbBase, the least
\* significant first and the most significant not 0; the number 0 is << >>.
LimbBits == 14

LimbBase == Pow2(LimbBits)

RECURSIVE BigOf(_)
BigOf(n) == IF n <= 0 THEN << >> ELSE <<n % LimbBase>> \o BigOf(n \div LimbBase)

\* The j-th digit of a, 0 beyond its ends.
Digit(a, j) == IF j \in 1..Len(a) THEN a[j] ELSE 0

\* The bit of weight 2^i of a.
Bit(a, i) == (Digit(a, i \div LimbBits + 1) \div Pow2(i % LimbBits)) % 2

\* a without zero digits at its most significant end.
RECURSIVE BigTrim(_)
BigTrim(a) == IF a # << >> /\ a[Len(a)] = 0 THEN BigTrim(SubSeq(a, 1, Len(a) - 1)) ELSE a

\* The number of bits of a.
BigBits(a) == IF a = << >> THEN 0 ELSE LimbBits * (Len(a) - 1) + Log2(a[Len(a)]) + 1

\* a * 2^k
BigShl(a, k) ==
  LET d == k \div LimbBits
      up == Pow2(k % LimbBits)
      down == Pow2(LimbBits - (k % LimbBits))
  IN IF k = 0 THEN a
     ELSE BigTrim([j \in 1..(Len(a) + d + 1) |->
                     ((Digit(a, j - d) * up) % LimbBase) + (Digit(a, j - d - 1) \div down)])

\* a \div 2^k
BigShr(a, k) ==
  LET d == k \div LimbBits
      up == Pow2(LimbBits - (k % LimbBits))
      down == Pow2(k % LimbBits)
  IN IF k = 0 THEN a
     ELSE BigTrim([j \in 1..(Len(a) - d) |->
                     (Digit(a, j + d) \div down) + ((Digit(a, j + d + 1) * up) % LimbBase)])

\* a + b + c, c a carry.
RECURSIVE BigAdd(_, _, _)
BigAdd(a, b, c) ==
  IF a = << >> /\ c = 0 THEN b
  ELSE IF b = << >> /\ c = 0 THEN a
  ELSE <<(Digit(a, 1) + Digit(b, 1) + c) % LimbBase>>
         \o BigAdd(SubSeq(a, 2, Len(a)), SubSeq(b, 2, Len(b)),
                   (Digit(a, 1) + Digit(b, 1) + c) \div LimbBase)

\* The digits of a - b - c for a >= b + c, c a borrow.
RECURSIVE BigSub(_, _, _)
BigSub(a, b, c) ==
  IF b = << >> /\ c = 0 THEN a
  ELSE <<(a[1] - Digit(b, 1) - c + LimbBase) % LimbBase>>
         \o BigSub(Tail(a), SubSeq(b, 2, Len(b)), IF a[1] - Digit(b, 1) - c < 0 THEN 1 ELSE 0)

\* The digits of a * d + c for a digit d, c a carry.
RECURSIVE BigMulDigit(_, _, _)
BigMulDigit(a, d, c) ==
  IF a = << >> THEN BigOf(c)
  ELSE <<(a[1] * d + c) % LimbBase>> \o BigMulDigit(Tail(a), d, (a[1] * d + c) \div LimbBase)

\* a * b
RECURSIVE BigMul(_, _)
BigMul(a, b) ==
  IF b = << >> THEN << >>
  ELSE BigAdd(BigTrim(BigMulDigit(a, b[1], 0)), BigShl(BigMul(a, Tail(b)), LimbBits), 0)

\* a >= b
BigGeq(a, b) ==
  \/ Len(a) > Len(b)
  \/ /\ Len(a) = Len(b)
     /\ \/ a = b
        \/ \E i \in 1..Len(a) : a[i] > b[i] /\ \A j \in (i + 1)..Len(a) : a[j] = b[j]

\* The quotient q and the remainder r of a by d, 0 < d < LimbBase.
RECURSIVE BigDivMod(_, _)
BigDivMod(a, d) ==
  IF a = << >> THEN [q |-> << >>, r |-> 0]
  ELSE LET hi == BigDivMod(Tail(a), d)
           x == hi.r * LimbBase + a[1]
       IN [q |-> IF hi.q = << >> /\ x < d THEN << >> ELSE <<x \div d>> \o hi.q,
           r |-> x % d]

\* The quotient q of a by scale, and whether the division is exact; scale is
\* below LimbBase or a multiple of 10^4.
RECURSIVE BigDivScale(_, _)
BigDivScale(a, scale) ==
  LET d == BigDivMod(a, IF scale < LimbBase THEN scale ELSE Pow10(4))
      h == BigDivScale(d.q, scale \div Pow10(4))
  IN IF scale < LimbBase THEN [q |-> d.q, exact |-> d.r = 0]
     ELSE [q |-> h.q, exact |-> h.exact /\ d.r = 0]

(***************************************************************************)
(* Numbers of the program: doubles, and Float32 values read as doubles     *)
(***************************************************************************)
\* Bits of the significand of a double and of a Float32.
DoubleBits == 53

FloatBits == 24

Zero == [m |-> << >>, e |-> 0]

One == [m |-> <<1>>, e |-> 0]

\* The number of zero bits at the least significant end of n > 0.
RECURSIVE LowZeros(_)
LowZeros(n) == IF n % 2 = 1 THEN 0 ELSE 1 + LowZeros(n \div 2)

\* The record of m * 2^e: the significand is odd.
RECURSIVE Canon(_, _)
Canon(m, e) ==
  IF m = << >> THEN Zero
  ELSE IF m[1] = 0 THEN Canon(Tail(m), e + LimbBits)
  ELSE IF m[1] % 2 = 1 THEN [m |-> m, e |-> e]
  ELSE [m |-> BigShr(m, LowZeros(m[1])), e |-> e + LowZeros(m[1])]

\* The number with a significand of the given bits nearest to a number x with
\* m * 2^e <= x < (m + 1) * 2^e, where x = m * 2^e unless inexact; ties go to
\* the even significand.  When inexact, m has at least bits + 2 bits.
RoundTo(bits, m, e, inexact) ==
  LET k == BigBits(m) - bits
      up == /\ Bit(m, k - 1) = 1
            /\ inexact \/ Bit(m, k) = 1 \/ \E i \in 0..(k - 2) : Bit(m, i) = 1
  IN IF k <= 0 THEN Canon(m, e)
     ELSE Canon(BigAdd(BigShr(m, k), << >>, IF up THEN 1 ELSE 0), e + k)

\* The number with a significand of the given bits nearest to n / scale, n >= 0.
Nearest(bits, n, scale) ==
  LET k == bits + 3 + Log2(scale)
      d == BigDivScale(BigShl(BigOf(n), k), scale)
  IN IF n = 0 THEN Zero ELSE RoundTo(bits, d.q, 0 - k, ~d.exact)

\* The double a Number holds that was given as n / scale.
Double(n, scale) == Nearest(DoubleBits, n, scale)

\* getValue(ptr, 'float') of a Float32 the classifier wrote as n / scale: the
\* Float32 nearest to it, which is a double.
Float(n, scale) == Nearest(FloatBits, n, scale)

\* x * y
DoubleMul(x, y) ==
  IF x = Zero \/ y = Zero THEN Zero
  ELSE IF x = One THEN y
  ELSE IF y = One THEN x
  ELSE RoundTo(DoubleBits, BigMul(x.m, y.m), x.e + y.e, FALSE)

\* x + y
DoubleAdd(x, y) ==
  IF x = Zero THEN y
  ELSE IF y = Zero THEN x
  ELSE RoundTo(DoubleBits,
               BigAdd(BigShl(x.m, x.e - Min(x.e, y.e)), BigShl(y.m, y.e - Min(x.e, y.e)), 0),
               Min(x.e, y.e), FALSE)

\* x - y, for x >= y
DoubleSub(x, y) ==
  IF y = Zero THEN x
  ELSE RoundTo(DoubleBits,
               BigTrim(BigSub(BigShl(x.m, x.e - Min(x.e, y.e)),
                              BigShl(y.m, y.e - Min(x.e, y.e)), 0)),
               Min(x.e, y.e), FALSE)

\* x >= y: by the weights of their leading bits, or with these equal by the
\* significands.
DoubleGeq(x, y) ==
  IF y = Zero THEN TRUE
  ELSE IF x = Zero THEN FALSE
  ELSE IF BigBits(x.m) + x.e # BigBits(y.m) + y.e
  THEN BigBits(x.m) + x.e > BigBits(y.m) + y.e
  ELSE BigGeq(BigShl(x.m, x.e - Min(x.e, y.e)), BigShl(y.m, y.e - Min(x.e, y.e)))

(***************************************************************************)
(* Float32Array, run-length encoded                                        *)
(***************************************************************************)
\* new Float32Array(n): n zero samples.
F32Zeros(n) == IF n <= 0 THEN << >> ELSE << <<n, 0>> >>

\* n samples of value v.
F32Const(n, v) == IF n <= 0 THEN << >> ELSE << <<n, v>> >>

RECURSIVE F32Len(_)
F32Len(a) == IF a = << >> THEN 0 ELSE Head(a)[1] + F32Len(Tail(a))

\* The array holding a's samples followed by b's.
F32Concat(a, b) ==
  IF a = << >> THEN b
  ELSE IF b = << >> THEN a
  ELSE LET la == a[Len(a)]
           hb == Head(b)
       IN IF la[2] = hb[2]
          THEN SubSeq(a, 1, Len(a) - 1) \o << <<la[1] + hb[1], la[2]>> >> \o Tail(b)
          ELSE a \o b

\* a without its first k samples.
RECURSIVE F32Drop(_, _)
F32Drop(a, k) ==
  IF k <= 0 \/ a = << >> THEN a
  ELSE IF Head(a)[1] <= k THEN F32Drop(Tail(a), k - Head(a)[1])
  ELSE << <<Head(a)[1] - k, Head(a)[2]>> >> \o Tail(a)

\* The first k samples of a.
RECURSIVE F32Take(_, _)
F32Take(a, k) ==
  IF k <= 0 \/ a = << >> THEN << >>
  ELSE IF Head(a)[1] <= k THEN << Head(a) >> \o F32Take(Tail(a), k - Head(a)[1])
  ELSE << <<k, Head(a)[2]>> >>

\* a.subarray(start, end): the samples at 0-based positions start .. end-1.
F32Subarray(a, start, end) ==
  LET n == F32Len(a)
      s == Min(Max(start, 0), n)
      e == Min(Max(end, 0), n)
  IN F32Take(F32Drop(a, s), e - s)

\* a[i], 0-based, for 0 <= i < a.length.
RECURSIVE F32At(_, _)
F32At(a, i) == IF i < Head(a)[1] THEN Head(a)[2] ELSE F32At(Tail(a), i - Head(a)[1])

\* The sum of the squares of a's samples (in units of 1/AmpScale^2).
RECURSIVE SumSq(_)
SumSq(a) == IF a = << >> THEN 0 ELSE Head(a)[1] * Head(a)[2] * Head(a)[2] + SumSq(Tail(a))

\* _concatFrames: the samples of the frames, in order, in one array.
RECURSIVE ConcatFrames(_)
ConcatFrames(frames) ==
  IF frames = << >> THEN << >>
  ELSE F32Concat(Head(frames).data, ConcatFrames(Tail(frames)))

\* The _frameIndex tags of a list of frames.
FrameIdxs(frames) == [i \in 1..Len(frames) |-> frames[i].idx]

(***************************************************************************)
(* Construction                                                            *)
(***************************************************************************)
Clamp(lo, hi, x) == Min(hi, Max(lo, x))

\* The length of a frame in ms (16, exactly).
FrameMs == (1000 * HOP_SIZE) \div SAMPLE_RATE

\* How the double (a / 1000) * SAMPLE_RATE / HOP_SIZE, a >= 1, lies to a / 16:
\* -1 below, 0 equal, 1 above.  a / 1000 is rounded to 53 bits and so is its
\* product with 16000 (= 125 * 2^7); the division by 256 is exact.  With b the
\* exponent of a's leading bit, the quotient a / 125 is cut at 2^-s and r is the
\* part cut off, in units of 2^-s / 125: the quotient is rounded down by r (r <=
\* 62) or up by 125 - r, and the product comes back to a unless that error is
\* more than half a unit of a's last place, which takes s = 58 - b (the
\* quotient is at least 2^(b-6)) and r in 33..62 or 63..92.
FloatSlip(a) ==
  LET b == Log2(a)
      r == ((a % 125) * Pow2Mod(58 - b, 125)) % 125
  IN IF 64 * a < 125 * Pow2(b) THEN 0
     ELSE IF r >= 33 /\ r <= 62 THEN 0 - 1
     ELSE IF r >= 63 /\ r <= 92 THEN 1
     ELSE 0

\* Math.round((ms / 1000) * SAMPLE_RATE / HOP_SIZE): ms / 16 rounded to the
\* nearest integer, and at a half the way the double falls (upward when it is
\* the half exactly).
PadFrames(ms) ==
  LET a == IF ms < 0 THEN 0 - ms ELSE ms
      nearest == MathRound(ms, FrameMs)
  IN IF a % FrameMs # FrameMs \div 2 THEN nearest
     ELSE IF ms > 0 /\ FloatSlip(a) < 0 THEN nearest - 1
     ELSE IF ms < 0 /\ FloatSlip(a) > 0 THEN nearest - 1
     ELSE nearest

\* Mutant of Thresholds: the clamped values are not swapped.
ThresholdsNoSwap(o) ==
  [pos |-> Clamp(0, PScale, o.positiveSpeechThreshold),
   neg |-> Clamp(0, PScale, o.negativeSpeechThreshold)]

\* pos, neg after clamping to [0,1] and the swap that orders them.
Thresholds(opts) ==
  LET pos == Clamp(0, PScale, opts.positiveSpeechThreshold)
      neg == Clamp(0, PScale, opts.negativeSpeechThreshold)
  IN IF neg > pos THEN [pos |-> neg, neg |-> pos] ELSE [pos |-> pos, neg |-> neg]

\* The tunables an instance holds after the constructor ran on opts.
Constructor(opts) ==
  [ positiveSpeechThreshold |-> Thresholds(opts).pos,
    negativeSpeechThreshold |-> Thresholds(opts).neg,
    minSpeechFrames  |-> opts.minSpeechFrames,
    minSilenceFrames |-> opts.minSilenceFrames,
    probSmoothing    |-> Clamp(0, AlphaScale, opts.probSmoothing),
    energyGateDb     |-> opts.energyGateDb,
    onSpeechStart    |-> opts.onSpeechStart,
    onSpeechEnd      |-> opts.onSpeechEnd,
    onVADMisfire     |-> opts.onVADMisfire,
    preSpeechPadMs   |-> opts.preSpeechPadMs,
    postSpeechPadMs  |-> opts.postSpeechPadMs,
    minSpeechMs      |-> opts.minSpeechMs,
    prePadFrames     |-> PadFrames(opts.preSpeechPadMs),
    postPadFrames    |-> PadFrames(opts.postSpeechPadMs),
    ringMax          |-> Max(0, PadFrames(opts.preSpeechPadMs)) ]

\* The internal state the constructor leaves.  Some fields are not fields of the
\* instance: loading (a call of _loadVADModule is suspended at the await of line
\* 167), destroyed (destroy() has been called), events (the callbacks made so
\* far), lastFrame (the samples of the last frame given to _processFrame) and
\* thrown (what the call under way has thrown).
NewState ==
  [ module |-> "null",
    loading |-> FALSE,
    destroyed |-> FALSE,
    thrown |-> "none",
    floatBuf |-> << >>,
    lastSampleForPreEmph |-> 0,
    pSmoothed |-> Zero,
    frameIndex |-> 0,
    inSpeech |-> FALSE,
    voiceRun |-> 0,
    silenceRun |-> 0,
    ring |-> << >>,
    currentSegment |-> << >>,
    postPadCountdown |-> 0,
    events |-> << >>,
    lastFrame |-> << >> ]

(***************************************************************************)
(* The segmentation state machine                                          *)
(***************************************************************************)
\* Math.round(seg.length / SAMPLE_RATE * 1000)
DurMs(sampleCount) == MathRound(sampleCount * 1000, SAMPLE_RATE)

\* The per-frame voice decisions of a list of frames.
FrameVoice(frames) == [i \in 1..Len(frames) |-> frames[i].voice]

\* A callback about to be made: its name, its payload, and the frames the
\* payload was concatenated from (their tags and voice decisions).
Event(cb, seg, frames) ==
  [cb |-> cb, seg |-> seg, frames |-> FrameIdxs(frames), voice |-> FrameVoice(frames)]

\* Mutant of Callback: an exception of the callback is not caught.
CallbackUncaught(cfg, s, e) ==
  [s EXCEPT !.events = Append(s.events,
                [cb |-> e.cb, seg |-> e.seg, frames |-> e.frames, voice |-> e.voice,
                 threw |-> (cfg[e.cb] = "throws"), at |-> s.frameIndex]),
            !.thrown = IF cfg[e.cb] = "throws" THEN "callback" ELSE s.thrown]

\* try { this.onX(...) } catch (_) { }: the callback is made (recorded with
\* whether it threw and the value of _frameIndex at that moment) and whatever it
\* throws is swallowed.
Callback(cfg, s, e) ==
  [s EXCEPT !.events = Append(s.events,
                [cb |-> e.cb, seg |-> e.seg, frames |-> e.frames, voice |-> e.voice,
                 threw |-> (cfg[e.cb] = "throws"), at |-> s.frameIndex])]

\* Mutant of TerminalEvent: a segment of exactly minSpeechMs counts as a misfire.
TerminalEventAtMost(cfg, seg, frames) ==
  IF DurMs(F32Len(seg)) <= cfg.minSpeechMs
  THEN Event("onVADMisfire", << >>, frames)
  ELSE Event("onSpeechEnd", seg, frames)

\* The callback a closing segment of the given duration gets: onVADMisfire with
\* no payload, or onSpeechEnd with the concatenated samples.
TerminalEvent(cfg, seg, frames) ==
  IF DurMs(F32Len(seg)) < cfg.minSpeechMs
  THEN Event("onVADMisfire", << >>, frames)
  ELSE Event("onSpeechEnd", seg, frames)

\* Lines 297-308 and 323-332: concatenate, leave Speech, clear, call back.
CloseSegment(cfg, s) ==
  Callback(cfg,
           [s EXCEPT !.inSpeech = FALSE,
                     !.currentSegment = << >>,
                     !.postPadCountdown = 0],
           TerminalEvent(cfg, ConcatFrames(s.currentSegment), s.currentSegment))

\* The pre-pad ring after the frame is pushed.
RingPush(cfg, ring, frame) ==
  IF cfg.ringMax > 0
  THEN (IF Len(ring) >= cfg.ringMax THEN Tail(ring) ELSE ring) \o <<frame>>
  ELSE ring

\* The segment a speech onset starts with: the ring's frames.
SeedSegment(cfg, seg, ring) == IF cfg.ringMax > 0 THEN seg \o ring ELSE seg

\* Whether the trailing silence collected so far closes the segment.
FinalizeNow(cfg, silenceRun, countdown) ==
  silenceRun >= cfg.minSilenceFrames /\ countdown <= 0

\* Mutant of AdvanceVoice: the onset test forgets that a segment is open.
AdvanceVoiceReenters(cfg, s, frame) ==
  LET voiceRun == s.voiceRun + 1
      enter == voiceRun >= cfg.minSpeechFrames
      a == [s EXCEPT !.voiceRun = voiceRun, !.silenceRun = 0]
      b == IF enter
           THEN Callback(cfg,
                  [a EXCEPT !.inSpeech = TRUE,
                            !.currentSegment = SeedSegment(cfg, s.currentSegment, s.ring),
                            !.postPadCountdown = 0],
                  Event("onSpeechStart", << >>, << >>))
           ELSE a
  IN IF b.thrown # "none" THEN b
     ELSE IF b.inSpeech THEN [b EXCEPT !.currentSegment = Append(b.currentSegment, frame)]
     ELSE b

\* The voice branch of _advanceState (the ring already holds the frame).
AdvanceVoice(cfg, s, frame) ==
  LET voiceRun == s.voiceRun + 1
      enter == ~s.inSpeech /\ voiceRun >= cfg.minSpeechFrames
      a == [s EXCEPT !.voiceRun = voiceRun, !.silenceRun = 0]
      b == IF enter
           THEN Callback(cfg,
                  [a EXCEPT !.inSpeech = TRUE,
                            !.currentSegment = SeedSegment(cfg, s.currentSegment, s.ring),
                            !.postPadCountdown = 0],
                  Event("onSpeechStart", << >>, << >>))
           ELSE a
  IN IF b.thrown # "none" THEN b
     ELSE IF b.inSpeech THEN [b EXCEPT !.currentSegment = Append(b.currentSegment, frame)]
     ELSE b

\* Mutant of AdvanceSilence: the trailing non-voice frames are not accumulated.
AdvanceSilenceDropsFrame(cfg, s, frame) ==
  LET silenceRun == s.silenceRun + 1
      armed == IF s.postPadCountdown = 0 THEN cfg.postPadFrames ELSE s.postPadCountdown
      t == [s EXCEPT !.silenceRun = silenceRun, !.voiceRun = 0]
      u == [t EXCEPT !.postPadCountdown = armed - 1]
  IN IF ~s.inSpeech THEN t
     ELSE IF FinalizeNow(cfg, silenceRun, armed - 1) THEN CloseSegment(cfg, u)
     ELSE u

\* The non-voice branch of _advanceState.
AdvanceSilence(cfg, s, frame) ==
  LET silenceRun == s.silenceRun + 1
      armed == IF s.postPadCountdown = 0 THEN cfg.postPadFrames ELSE s.postPadCountdown
      t == [s EXCEPT !.silenceRun = silenceRun, !.voiceRun = 0]
      u == [t EXCEPT !.currentSegment = Append(s.currentSegment, frame),
                     !.postPadCountdown = armed - 1]
  IN IF ~s.inSpeech THEN t
     ELSE IF FinalizeNow(cfg, silenceRun, armed - 1) THEN CloseSegment(cfg, u)
     ELSE u

\* _advanceState(isVoice, prob, frameRaw); an exception leaves before the
\* increment of _frameIndex.
AdvanceState(cfg, s, isVoice, frame) ==
  LET r == [s EXCEPT !.ring = RingPush(cfg, s.ring, frame)]
      a == IF isVoice THEN AdvanceVoice(cfg, r, frame) ELSE AdvanceSilence(cfg, r, frame)
  IN IF a.thrown # "none" THEN a ELSE [a EXCEPT !.frameIndex = s.frameIndex + 1]

\* _finalizeWithFrame(trailingFrame, treatAsSilence)
FinalizeWithFrame(cfg, s, trailingFrame, treatAsSilence) ==
  LET p == [s EXCEPT !.currentSegment = Append(s.currentSegment, trailingFrame)]
      armed == IF p.postPadCountdown = 0 THEN cfg.postPadFrames ELSE p.postPadCountdown
      q == [p EXCEPT !.postPadCountdown = armed - 1]
  IN IF ~treatAsSilence THEN p
     ELSE IF armed - 1 <= 0 THEN CloseSegment(cfg, q)
     ELSE q

(***************************************************************************)
(* Per-frame classification                                                *)
(***************************************************************************)
\* For k = 0..9, the least sum of squares S (in units of 1/AmpScale^2) of a
\* frame whose level reaches k dBFS:
\* 20 * log10(sqrt(S / AmpScale^2 / HOP_SIZE) + 1e-12) >= k.
GateFloorUnit ==
  << 268435456, 337940217, 425441527, 535599150, 674279380,
     848867446, 1068660799, 1345364236, 1693713225, 2132258620 >>

\* The least sum of squares of a frame whose level reaches gate dBFS, gate <=
\* 9: ten dB less is a tenth of the mean square.  A frame of zeros is at
\* 20 * log10(1e-12) = -240 dBFS.
GateFloor(gate) ==
  LET tens == 0 - (gate \div 10)
  IN IF gate <= 0 - 240 THEN 0
     ELSE IF tens >= 10 THEN 1
     ELSE (GateFloorUnit[(gate % 10) + 1] - 1) \div Pow10(tens) + 1

\* Mutant of Gated: the gate is never consulted.
GatedAlwaysOpen(cfg, data) == TRUE

\* gated: whether the energy gate lets the frame through.  No frame whose sum
\* of squares the model can hold reaches 10 dBFS.
Gated(cfg, data) ==
  IF cfg.energyGateDb = Null THEN TRUE
  ELSE IF cfg.energyGateDb[1] >= 10 THEN FALSE
  ELSE SumSq(data) >= GateFloor(cfg.energyGateDb[1])

\* hysteresisThresh
HysteresisThresh(cfg, inSpeech) ==
  IF inSpeech THEN cfg.negativeSpeechThreshold ELSE cfg.positiveSpeechThreshold

\* hysteresisThresh, the double the comparison of line 251 reads.
HysteresisDouble(cfg, inSpeech) == Double(HysteresisThresh(cfg, inSpeech), PScale)

\* alpha * _pSmoothed + (1 - alpha) * p for the double alpha given in tenths
\* and the doubles pSmoothed and p: two products, a difference and a sum, each
\* rounded.
Ema(alpha, pSmoothed, p) ==
  LET a == Double(alpha, AlphaScale)
  IN DoubleAdd(DoubleMul(a, pSmoothed), DoubleMul(DoubleSub(One, a), p))

\* Mutant of IsVoice: the threshold itself does not count as voice.
IsVoiceStrict(cfg, inSpeech, flag, pSmoothed, gated) ==
  flag = 1 /\ ~DoubleGeq(HysteresisDouble(cfg, inSpeech), pSmoothed) /\ gated

\* isVoice
IsVoice(cfg, inSpeech, flag, pSmoothed, gated) ==
  flag = 1 /\ DoubleGeq(pSmoothed, HysteresisDouble(cfg, inSpeech)) /\ gated

\* Mutant of ProcessFrame: a frame the classifier fails on is dropped.
ProcessFrameDropsOnError(cfg, s, data, c) ==
  LET t == [s EXCEPT !.lastSampleForPreEmph = F32At(data, HOP_SIZE - 1),
                     !.lastFrame = data]
      ps == Ema(cfg.probSmoothing, s.pSmoothed, c.p)
      isVoice == IsVoice(cfg, s.inSpeech, c.flag, ps, Gated(cfg, data))
      u == [t EXCEPT !.pSmoothed = ps]
  IN IF s.module = "null" THEN [t EXCEPT !.thrown = "TypeError"]
     ELSE IF c.rc # 0 THEN t
     ELSE IF s.module = "bare" THEN [t EXCEPT !.thrown = "TypeError"]
     ELSE AdvanceState(cfg, u, isVoice, [data |-> data, idx |-> s.frameIndex, voice |-> isVoice])

\* _processFrame(frameRaw) when the classifier answers c = [rc, p, flag], p the
\* Float32 that line 233 reads.  With _module null (never loaded, or destroyed) the read of
\* _module.HEAP16 on line 225 throws a TypeError, after line 222 has stored the
\* pre-emphasis carry; with a module that has no getValue the call of line 233
\* does, when the classifier has returned 0.
ProcessFrame(cfg, s, data, c) ==
  LET t == [s EXCEPT !.lastSampleForPreEmph = F32At(data, HOP_SIZE - 1),
                     !.lastFrame = data]
      ps == Ema(cfg.probSmoothing, s.pSmoothed, c.p)
      isVoice == IsVoice(cfg, s.inSpeech, c.flag, ps, Gated(cfg, data))
      u == [t EXCEPT !.pSmoothed = ps]
  IN IF s.module = "null" THEN [t EXCEPT !.thrown = "TypeError"]
     ELSE IF c.rc # 0
     THEN AdvanceState(cfg, t, FALSE, [data |-> data, idx |-> s.frameIndex, voice |-> FALSE])
     ELSE IF s.module = "bare" THEN [t EXCEPT !.thrown = "TypeError"]
     ELSE AdvanceState(cfg, u, isVoice, [data |-> data, idx |-> s.frameIndex, voice |-> isVoice])

(***************************************************************************)
(* processAudio, flush and destroy                                         *)
(***************************************************************************)
\* Mutant of Combined: the held remainder is forgotten.
CombinedWithoutRemainder(floatBuf, chunk) == chunk

\* combined: the held remainder followed by the chunk.
Combined(floatBuf, chunk) == F32Concat(floatBuf, chunk)

\* The i-th 256-sample hop of combined (i from 0).
FrameAt(combined, i) == F32Subarray(combined, i * HOP_SIZE, i * HOP_SIZE + HOP_SIZE)

\* What is left of combined after `frames` whole hops.
Remainder(combined, frames) == F32Subarray(combined, frames * HOP_SIZE, F32Len(combined))

\* The loop of processAudio from hop i on; cls[k] answers for frame index k.
\* An exception leaves the loop.
RECURSIVE FrameLoop(_, _, _, _, _, _)
FrameLoop(cfg, s, combined, i, frames, cls) ==
  IF i >= frames \/ s.thrown # "none" THEN s
  ELSE FrameLoop(cfg, ProcessFrame(cfg, s, FrameAt(combined, i), cls[s.frameIndex]),
                 combined, i + 1, frames, cls)

\* processAudio(floatChunk) past the type check, for a Float32Array chunk; an
\* exception leaves before the remainder is stored.
ProcessAudioOp(cfg, s, chunk, cls) ==
  LET combined == Combined(s.floatBuf, chunk)
      frames == F32Len(combined) \div HOP_SIZE
      t == FrameLoop(cfg, s, combined, 0, frames, cls)
  IN IF t.thrown # "none" THEN t
     ELSE [t EXCEPT !.floatBuf = Remainder(combined, frames)]

\* Mutant of ProcessAudioCall: any array-like argument is taken as samples.
ProcessAudioCallCoerces(cfg, s, arg, cls) == ProcessAudioOp(cfg, s, arg.data, cls)

\* processAudio(arg) for an argument [type, data]: anything that is not a
\* Float32Array makes the call throw before it does anything else.
ProcessAudioCall(cfg, s, arg, cls) ==
  IF arg.type # "Float32Array" THEN [s EXCEPT !.thrown = "Error"]
  ELSE ProcessAudioOp(cfg, s, arg.data, cls)

\* pad: a zeroed frame with the remainder copied to its start.
FlushPad(floatBuf) == F32Concat(floatBuf, F32Zeros(HOP_SIZE - F32Len(floatBuf)))

\* Mutant of ForceClose: the segment is closed with one silent frame, whatever
\* the countdown.
ForceCloseOnce(cfg, s) ==
  IF s.postPadCountdown > 0 /\ s.thrown = "none"
  THEN CloseSegment(cfg,
         [s EXCEPT !.currentSegment =
                     Append(s.currentSegment,
                            [data |-> F32Zeros(HOP_SIZE), idx |-> -1, voice |-> FALSE])])
  ELSE s

\* The force-close loop of flush: silent frames while the countdown is positive.
RECURSIVE ForceClose(_, _)
ForceClose(cfg, s) ==
  IF s.postPadCountdown > 0 /\ s.thrown = "none"
  THEN ForceClose(cfg, FinalizeWithFrame(cfg, s,
                         [data |-> F32Zeros(HOP_SIZE), idx |-> -1, voice |-> FALSE], TRUE))
  ELSE s

\* flush(), line 123: the remainder is cleared once the padded frame has been
\* processed; an exception leaves before.
FlushClear(p) == IF p.thrown # "none" THEN p ELSE [p EXCEPT !.floatBuf = << >>]

\* flush(), lines 126-133, from the state t the first half has left: an open
\* segment is closed with silent frames.
FlushClose(cfg, t) ==
  IF t.thrown # "none" THEN t
  ELSE IF t.inSpeech
  THEN ForceClose(cfg, [t EXCEPT !.postPadCountdown = cfg.postPadFrames])
  ELSE t

\* Mutant of FlushOp: the remainder is not cleared after the padded frame.
FlushOpKeepsRemainder(cfg, s, cls) ==
  FlushClose(cfg, IF F32Len(s.floatBuf) > 0
                  THEN ProcessAudioOp(cfg, s, FlushPad(s.floatBuf), cls)
                  ELSE s)

\* flush()
FlushOp(cfg, s, cls) ==
  FlushClose(cfg, IF F32Len(s.floatBuf) > 0
                  THEN FlushClear(ProcessAudioOp(cfg, s, FlushPad(s.floatBuf), cls))
                  ELSE s)

\* How a call of _loadVADModule suspended at line 167 ends: the module is
\* created and the classifier with it; the promise of createVADModule rejects;
\* the module is created and unlinkSync throws (line 173), the module having a
\* getValue of its own or none; or the module is created and _ten_vad_create
\* fails (line 189).
LoadOutcomes == {"resolved", "rejected", "unlinkFailed", "unlinkFailedBare", "createFailed"}

\* _loadVADModule() from the await of line 167 on.  When the promise rejects
\* _module is not assigned.  When unlinkSync throws _module is held without the
\* getValue of lines 176-184 ("bare", if it has none of its own) and without
\* classifier; when _ten_vad_create fails _module is held and the classifier's
\* handle and buffers are not.  What the classifier answers then is the
\* environment's choice like any answer.
LoadVADModule(s, outcome) ==
  IF outcome = "rejected" THEN [s EXCEPT !.loading = FALSE, !.thrown = "Error"]
  ELSE IF outcome = "unlinkFailedBare"
  THEN [s EXCEPT !.module = "bare", !.loading = FALSE, !.thrown = "Error"]
  ELSE IF outcome \in {"unlinkFailed", "createFailed"}
  THEN [s EXCEPT !.module = "loaded", !.loading = FALSE, !.thrown = "Error"]
  ELSE [s EXCEPT !.module = "loaded", !.loading = FALSE]

\* destroy(): the classifier's resources are freed and _module is null; what
\* the frees throw is swallowed.
DestroyOp(s) == [s EXCEPT !.module = "null", !.destroyed = TRUE]

(***************************************************************************)
(* Inputs                                                                  *)
(***************************************************************************)
\* Frames one run of Spec may pass through _advanceState.
MaxFrames == 5

\* The input stream: a test signal that is loud for loudLen samples and quiet
\* for the rest of each period (levels of about -6 dBFS and -30 dBFS).
TestSignal == [loud |-> 500, quiet |-> 32, loudLen |-> 384, period |-> 768]

\* The first n samples of the input stream.
RECURSIVE SignalPrefix(_)
SignalPrefix(n) ==
  IF n <= 0 THEN << >>
  ELSE LET base == ((n - 1) \div TestSignal.period) * TestSignal.period
           k == n - base
       IN F32Concat(SignalPrefix(base),
            F32Concat(F32Const(Min(k, TestSignal.loudLen), TestSignal.loud),
                      F32Const(k - TestSignal.loudLen, TestSignal.quiet)))

\* The samples pos .. pos+len-1 of the input stream.
SignalSlice(pos, len) == F32Subarray(SignalPrefix(pos + len), pos, pos + len)

\* The argument of processAudio: a Float32Array of the given samples, or
\* another kind of value holding them.
Float32Array(data) == [type |-> "Float32Array", data |-> data]

OtherArray(type, data) == [type |-> type, data |-> data]

\* Chunk lengths processAudio is called with in the runs of Spec.
ChunkLens == {128, 256, 512}

\* Classifier answers: an error, no voice, a flag and a probability.
ClsError == [rc |-> -1, p |-> Zero, flag |-> 0]

\* The classifier returns 0 and has written the flag, and as probability the
\* Float32 nearest to p / PScale.
ClsAnswer(flag, p) == [rc |-> 0, p |-> Float(p, PScale), flag |-> flag]

ClsSilent == ClsAnswer(0, 0)

ClsVoice == ClsAnswer(1, PScale)

\* No classifier call was recorded.
NoAnswer == [rc |-> 0, p |-> Zero, flag |-> -1]

\* What one classifier call can answer in the runs of Spec.
ClsOutcomes == {ClsError, ClsSilent, ClsVoice}

DefaultOpts ==
  [ positiveSpeechThreshold |-> (6 * PScale) \div 10,
    negativeSpeechThreshold |-> (4 * PScale) \div 10,
    minSpeechFrames |-> 3,
    minSilenceFrames |-> 8,
    probSmoothing |-> 2,
    energyGateDb |-> Null,
    preSpeechPadMs |-> 80,
    postSpeechPadMs |-> 160,
    minSpeechMs |-> 150,
    onSpeechStart |-> "returns",
    onSpeechEnd |-> "returns",
    onVADMisfire |-> "returns" ]

\* Configurations small enough for segments to open and close within MaxFrames.
SmallOpts ==
  [DefaultOpts EXCEPT !.minSpeechFrames = 2, !.minSilenceFrames = 2,
                      !.probSmoothing = 0, !.preSpeechPadMs = 16,
                      !.postSpeechPadMs = 16, !.minSpeechMs = 64]

OptsSet ==
  { SmallOpts,
    [SmallOpts EXCEPT !.postSpeechPadMs = 0],
    [SmallOpts EXCEPT !.preSpeechPadMs = 0, !.postSpeechPadMs = 48, !.minSilenceFrames = 1,
                      !.minSpeechMs = 70],
    [SmallOpts EXCEPT !.preSpeechPadMs = 32, !.minSpeechFrames = 1, !.minSpeechMs = 40] }

(***************************************************************************)
(* State                                                                   *)
(***************************************************************************)
VARIABLES
  opts,                  \* history: the options the constructor was given
  cfg,                   \* the tunables and callbacks fixed by the constructor
  module,                \* _module: "loaded" ("bare": without getValue), or
                         \*          "null" before the load and after destroy()
  loading,               \* a call of _loadVADModule is suspended at line 167
  destroyed,             \* history: destroy() has been called
  floatBuf,              \* _floatBuf: samples held until a frame is complete
  lastSampleForPreEmph,  \* _lastSampleForPreEmph
  pSmoothed,             \* _pSmoothed, a double
  frameIndex,            \* _frameIndex
  inSpeech,              \* _inSpeech
  voiceRun,              \* _voiceRun
  silenceRun,            \* _silenceRun
  ring,                  \* _ring: the last frames, for the pre-pad
  currentSegment,        \* _currentSegment: the frames of the open segment
  postPadCountdown,      \* _postPadCountdown
  events,                \* history: the callbacks made, in order
  lastFrame,             \* history: the samples of the last frame processed
  lastCls,               \* history: the classifier's answer for that frame,
                         \*          in the runs that record it
  pushed,                \* history: samples given to processAudio by the caller
  lastOp,                \* history: the last public call ("flush;flush": flush
                         \*          called again right after flush)
  thrown                 \* history: what that call threw ("none": it returned)

vars == <<opts, cfg, module, loading, destroyed, floatBuf, lastSampleForPreEmph, pSmoothed,
          frameIndex, inSpeech, voiceRun, silenceRun, ring, currentSegment,
          postPadCountdown, events, lastFrame, lastCls, pushed, lastOp, thrown>>

\* The instance's state as one record.
St ==
  [ module |-> module,
    loading |-> loading,
    destroyed |-> destroyed,
    thrown |-> "none",
    floatBuf |-> floatBuf,
    lastSampleForPreEmph |-> lastSampleForPreEmph,
    pSmoothed |-> pSmoothed,
    frameIndex |-> frameIndex,
    inSpeech |-> inSpeech,
    voiceRun |-> voiceRun,
    silenceRun |-> silenceRun,
    ring |-> ring,
    currentSegment |-> currentSegment,
    postPadCountdown |-> postPadCountdown,
    events |-> events,
    lastFrame |-> lastFrame ]

\* The next state is the record t.
Becomes(t) ==
  /\ module' = t.module
  /\ loading' = t.loading
  /\ destroyed' = t.destroyed
  /\ thrown' = t.thrown
  /\ floatBuf' = t.floatBuf
  /\ lastSampleForPreEmph' = t.lastSampleForPreEmph
  /\ pSmoothed' = t.pSmoothed
  /\ frameIndex' = t.frameIndex
  /\ inSpeech' = t.inSpeech
  /\ voiceRun' = t.voiceRun
  /\ silenceRun' = t.silenceRun
  /\ ring' = t.ring
  /\ currentSegment' = t.currentSegment
  /\ postPadCountdown' = t.postPadCountdown
  /\ events' = t.events
  /\ lastFrame' = t.lastFrame

\* The instance is constructed with opts in optsSet and is in state s.
InitFrom(optsSet, s) ==
  /\ opts \in optsSet
  /\ cfg = Constructor(opts)
  /\ module = s.module
  /\ loading = s.loading
  /\ destroyed = s.destroyed
  /\ thrown = s.thrown
  /\ floatBuf = s.floatBuf
  /\ lastSampleForPreEmph = s.lastSampleForPreEmph
  /\ pSmoothed = s.pSmoothed
  /\ frameIndex = s.frameIndex
  /\ inSpeech = s.inSpeech
  /\ voiceRun = s.voiceRun
  /\ silenceRun = s.silenceRun
  /\ ring = s.ring
  /\ currentSegment = s.currentSegment
  /\ postPadCountdown = s.postPadCountdown
  /\ events = s.events
  /\ lastFrame = s.lastFrame
  /\ lastCls = NoAnswer
  /\ pushed = 0
  /\ lastOp = "new"

\* The state in which `await RealtimeTenVad.new(opts)` hands the instance to its
\* caller (lines 25-29): constructed, and the load resolved.
InitWith(optsSet) == InitFrom(optsSet, LoadVADModule(NewState, "resolved"))

\* The state after `new RealtimeTenVad(opts)` and a call of _loadVADModule() that
\* has not been awaited: the instance is in its caller's hands and the load is
\* suspended at line 167.
InitLoading(optsSet) == InitFrom(optsSet, [NewState EXCEPT !.loading = TRUE])

\* The indices of the next n frames.
FrameIdxRange(n) == frameIndex .. (frameIndex + n - 1)

\* The frames a processAudio call with len more samples completes.
FramesOf(len) == (F32Len(floatBuf) + len) \div HOP_SIZE

\* The frames a flush call processes through the classifier.
FlushFrames == IF F32Len(floatBuf) > 0 THEN 1 ELSE 0

\* What is recorded of the classifier's answers for a call that ends in state
\* t: nothing, the answer for the last frame processed, or all the answers.
Recorded(record, t, cls) ==
  IF record = "all" THEN cls
  ELSE IF record = "last" /\ t.frameIndex > frameIndex THEN cls[t.frameIndex - 1]
  ELSE NoAnswer

\* processAudio(chunk) with the next len samples of the input stream; the
\* classifier answers cls[k] for the frame of index k; at most bound frames
\* are processed in a run.
ProcessAudioWith(len, cls, bound, record) ==
  /\ frameIndex + FramesOf(len) <= bound
  /\ \E t \in {ProcessAudioCall(cfg, St, Float32Array(SignalSlice(pushed, len)), cls)} :
       /\ Becomes(t)
       /\ lastCls' = Recorded(record, t, cls)
       /\ pushed' = pushed + len
       /\ lastOp' = "processAudio"
       /\ UNCHANGED <<opts, cfg>>

\* flush(); the classifier answers cls[k] for the frame of index k.
FlushWith(cls, bound, record) ==
  /\ frameIndex + FlushFrames <= bound
  /\ \E t \in {FlushOp(cfg, St, cls)} :
       /\ Becomes(t)
       /\ lastCls' = Recorded(record, t, cls)
       /\ lastOp' = IF lastOp \in {"flush", "flush;flush"} THEN "flush;flush" ELSE "flush"
       /\ UNCHANGED <<opts, cfg, pushed>>

\* processAudio(arg) with an argument of another type than Float32Array that
\* holds the next len samples; the caller has not got them accepted.
ProcessAudioInvalidWith(type, len, cls, bound) ==
  /\ frameIndex + FramesOf(len) <= bound
  /\ \E t \in {ProcessAudioCall(cfg, St, OtherArray(type, SignalSlice(pushed, len)), cls)} :
       /\ Becomes(t)
       /\ lastOp' = "processAudio(" \o type \o ")"
       /\ UNCHANGED <<opts, cfg, pushed, lastCls>>

\* The suspended call of _loadVADModule resumes and ends.
Load ==
  /\ loading
  /\ \E outcome \in LoadOutcomes : \E t \in {LoadVADModule(St, outcome)} : Becomes(t)
  /\ lastOp' = "load"
  /\ UNCHANGED <<opts, cfg, pushed, lastCls>>

\* destroy()
Destroy ==
  /\ \E t \in {DestroyOp(St)} : Becomes(t)
  /\ lastOp' = "destroy"
  /\ UNCHANGED <<opts, cfg, pushed, lastCls>>

(***************************************************************************)
(* Spec: any calls, any classifier answers                                 *)
(***************************************************************************)
Init == InitWith(OptsSet)

ProcessAudio ==
  \E len \in ChunkLens :
    \E cls \in [FrameIdxRange(FramesOf(len)) -> ClsOutcomes] :
      ProcessAudioWith(len, cls, MaxFrames, "none")

Flush ==
  \E cls \in [FrameIdxRange(FlushFrames) -> ClsOutcomes] :
    FlushWith(cls, MaxFrames, "none")

Next == ProcessAudio \/ Flush

Spec == Init /\ [][Next]_vars

(***************************************************************************)
(* Properties of the callbacks and of flush, checked under Spec            *)
(***************************************************************************)
IsStart(e) == e.cb = "onSpeechStart"

IsTerminal(e) == e.cb \in {"onSpeechEnd", "onVADMisfire"}

AfterFlush == lastOp \in {"flush", "flush;flush"}

\* C1: the callbacks alternate, an onSpeechStart first, then one terminal event
\* (onSpeechEnd or onVADMisfire), and so on; a segment is open exactly when the
\* last callback was an onSpeechStart, so no terminal event comes without an
\* unmatched start and no start comes while a segment is open.
C1_CallbacksAlternate ==
  /\ \A i \in 1..Len(events) :
       IF i % 2 = 1 THEN IsStart(events[i]) ELSE IsTerminal(events[i])
  /\ inSpeech <=> (Len(events) % 2 = 1)

\* Two segments were opened and closed, one delivered and one discarded.
C1_Witness ==
  /\ Len(events) >= 4
  /\ \E i, j \in 1..Len(events) :
       events[i].cb = "onSpeechEnd" /\ events[j].cb = "onVADMisfire"

\* C2: when flush() returns the machine is in Silence with an empty segment
\* and every onSpeechStart has had its terminal event.
C2_FlushLeavesSilence ==
  AfterFlush => (~inSpeech /\ currentSegment = << >> /\ Len(events) % 2 = 0)

\* Frame tags of consecutive input frames, each once, in arrival order;
\* frames synthesized by flush (tag -1) only at the tail.
ContiguousRun(f) ==
  \A j \in 1..(Len(f) - 1) : (f[j] >= 0 /\ f[j + 1] = f[j] + 1) \/ f[j + 1] = -1

\* C3: every segment given to onSpeechEnd is a contiguous run of the input
\* frames, each frame once, of 256 samples per frame.
C3_SegmentContiguous ==
  \A i \in 1..Len(events) :
    events[i].cb = "onSpeechEnd" =>
      /\ ContiguousRun(events[i].frames)
      /\ F32Len(events[i].seg) = Len(events[i].frames) * HOP_SIZE

\* round(sampleCount / 16000 * 1000) for n accumulated frames.
RoundedMs(n) == (2 * n * HOP_SIZE * 1000 + SAMPLE_RATE) \div (2 * SAMPLE_RATE)

\* C4: a closing segment of n accumulated frames is an onVADMisfire without
\* audio iff round(n*256/16000*1000) < minSpeechMs, and otherwise an
\* onSpeechEnd with all n*256 samples; in Silence the active segment is
\* empty and postPadCountdown is 0.
C4_MisfireIffShort ==
  /\ \A i \in 1..Len(events) :
       IsTerminal(events[i]) =>
         LET n == Len(events[i].frames)
         IN /\ events[i].cb = "onVADMisfire" <=> RoundedMs(n) < cfg.minSpeechMs
            /\ events[i].cb = "onVADMisfire" => events[i].seg = << >>
            /\ events[i].cb = "onSpeechEnd" => F32Len(events[i].seg) = n * HOP_SIZE
  /\ ~inSpeech => (currentSegment = << >> /\ postPadCountdown = 0)

\* A misfire and a delivered segment of exactly minSpeechMs were both seen,
\* and the machine is back in Silence.
C4_Witness ==
  /\ ~inSpeech
  /\ \E i, j \in 1..Len(events) :
       /\ events[i].cb = "onVADMisfire"
       /\ events[j].cb = "onSpeechEnd"
       /\ RoundedMs(Len(events[j].frames)) = cfg.minSpeechMs

\* C7: a flush() called right after a flush() makes no callback and leaves
\* the state as the first call left it.
C7_FlushIdempotent ==
  [][(AfterFlush /\ lastOp' = "flush;flush") =>
       UNCHANGED <<floatBuf, lastSampleForPreEmph, pSmoothed, frameIndex, inSpeech,
                   voiceRun, silenceRun, ring, currentSegment, postPadCountdown,
                   events>>]_vars

\* flush() was called twice in a row after a first flush that had a remainder
\* to process and a segment to close.
C7_Witness ==
  /\ lastOp = "flush;flush"
  /\ pushed % HOP_SIZE # 0
  /\ Len(events) >= 2

\* C8: flush() with a remainder of r samples processes exactly one more frame,
\* the remainder followed by 256 - r zeros, and empties the remainder; with no
\* remainder it processes no frame.
C8_FlushPadsRemainder ==
  [][(lastOp' \in {"flush", "flush;flush"}) =>
       IF F32Len(floatBuf) > 0
       THEN /\ frameIndex' = frameIndex + 1
            /\ lastFrame' = F32Concat(floatBuf, F32Zeros(HOP_SIZE - F32Len(floatBuf)))
            /\ floatBuf' = << >>
       ELSE frameIndex' = frameIndex]_vars

(***************************************************************************)
(* SpecMisfire: the scenario configuration, one voice run of exactly       *)
(* minSpeechFrames frames, non-voice before and after                      *)
(***************************************************************************)
\* Frames one run of SpecMisfire processes.
ScenarioFrames == 16

\* sampleRate 16000, frame 256, minSpeechFrames 3, minSilenceFrames 8,
\* preSpeechPadMs 80 (5 frames), postSpeechPadMs 160 (10 frames), minSpeechMs 150;
\* the synthetic probabilities are taken unsmoothed.
ScenarioOpts == [DefaultOpts EXCEPT !.probSmoothing = 0]

\* The synthetic classifier: voice (flag 1, probability 1) for the frames of the
\* one run, which may start at any frame and lasts until the segment opens.
ScenarioAnswers ==
  IF events # << >> THEN {ClsSilent}
  ELSE IF voiceRun > 0 THEN {ClsVoice}
  ELSE {ClsSilent, ClsVoice}

InitMisfire == InitWith({ScenarioOpts})

MisfirePush ==
  \E len \in {HOP_SIZE \div 2, HOP_SIZE} :
    \E cls \in [FrameIdxRange(FramesOf(len)) -> ScenarioAnswers] :
      ProcessAudioWith(len, cls, ScenarioFrames, "none")

SpecMisfire == InitMisfire /\ [][MisfirePush]_vars

\* C5 as stated: in the scenario the segment opened by the 3 voice frames ends
\* as onVADMisfire, not onSpeechEnd.
C5_ShortRunMisfires ==
  Len(events) >= 2 => events[2].cb = "onVADMisfire"

\* C5, amended: in the scenario no onVADMisfire is ever made; the segment
\* opened by the 3 voice frames is closed by the 10th non-voice frame after
\* them as onSpeechEnd, its duration over pre-pad, voice and post-pad being at
\* least the 160 ms of post-pad, which is not below minSpeechMs = 150.
C5_ShortRunEndsAsSpeechEnd ==
  /\ \A i \in 1..Len(events) : events[i].cb # "onVADMisfire"
  /\ (events # << >> /\ silenceRun >= cfg.postPadFrames) =>
       /\ Len(events) = 2
       /\ events[2].cb = "onSpeechEnd"
       /\ RoundedMs(Len(events[2].frames)) >= cfg.postSpeechPadMs
       /\ cfg.postSpeechPadMs >= cfg.minSpeechMs

\* The 3 voice frames opened a segment and the non-voice frames closed it.
C5_Witness ==
  /\ Len(events) = 2
  /\ events[2].cb = "onSpeechEnd"
  /\ lastOp = "processAudio"
  /\ silenceRun = cfg.postPadFrames

(***************************************************************************)
(* SpecChunk: one stream, one classifier script, any chunking, and at most *)
(* one flush, at the end                                                   *)
(***************************************************************************)
\* Frames one run of SpecChunk processes.
MaxChunkFrames == 6

\* Chunk lengths: empty, one sample, less than a frame, a frame, several frames.
ChunkLensAny == {0, 1, 100, HOP_SIZE, 700}

\* The classifier's answer for the frame of index k, the same in every run.
ChunkScript(k) ==
  IF k % 4 \in {0, 1} THEN ClsVoice
  ELSE IF k % 4 = 3 THEN ClsError
  ELSE ClsSilent

ScriptFn == [k \in 0..MaxChunkFrames |-> ChunkScript(k)]

InitChunk == InitWith({SmallOpts, [SmallOpts EXCEPT !.preSpeechPadMs = 32, !.minSpeechMs = 40]})

ChunkPush ==
  /\ ~AfterFlush
  /\ \E len \in ChunkLensAny : ProcessAudioWith(len, ScriptFn, MaxChunkFrames, "none")

ChunkFlush ==
  /\ ~AfterFlush
  /\ FlushWith(ScriptFn, MaxChunkFrames, "none")

NextChunk == ChunkPush \/ ChunkFlush

SpecChunk == InitChunk /\ [][NextChunk]_vars

\* The state after the whole stream pushed so far is given in one call.
AllAtOnce ==
  ProcessAudioOp(cfg, LoadVADModule(NewState, "resolved"), SignalPrefix(pushed), ScriptFn)

\* C6: however the stream is cut into chunks, the frames processed are the
\* 256-sample hops of the stream in order, the held remainder is the trailing
\* fewer-than-256 samples, and the state, the callbacks and the segments are
\* those of the run that gives the stream in one call (followed by flush(), if
\* flush() was called).
C6_ChunkInvariance ==
  /\ ~AfterFlush =>
       /\ St = AllAtOnce
       /\ frameIndex = pushed \div HOP_SIZE
       /\ floatBuf = F32Subarray(SignalPrefix(pushed), frameIndex * HOP_SIZE, pushed)
       /\ F32Len(floatBuf) < HOP_SIZE
       /\ frameIndex > 0 => lastFrame = SignalSlice((frameIndex - 1) * HOP_SIZE, HOP_SIZE)
  /\ AfterFlush => St = FlushOp(cfg, AllAtOnce, ScriptFn)

\* A stream of several frames and a partial one was pushed and flushed, and
\* segments were opened and closed on the way.
C6_Witness ==
  /\ lastOp = "flush"
  /\ pushed > 4 * HOP_SIZE
  /\ pushed % HOP_SIZE # 0
  /\ Len(events) >= 4

(***************************************************************************)
(* SpecCls: one frame per call, any classifier answer                      *)
(***************************************************************************)
\* Frames one run of SpecCls processes.
MaxClsFrames == 4

\* Answers with the flag off, and with the flag on at probabilities 0, 0.5,
\* 0.6 (read as the Float32 nearest to it, which is above the double 0.6),
\* 0.75 and 1.
ClsAnyOutcomes ==
  {ClsError, ClsAnswer(0, PScale), ClsAnswer(1, 0), ClsAnswer(1, PScale \div 2),
   ClsAnswer(1, (6 * PScale) \div 10), ClsAnswer(1, (3 * PScale) \div 4),
   ClsAnswer(1, PScale)}

\* Thresholds 0.6 and 0.4 unsmoothed and smoothed by 0.2, where 0.2 * 0 + 0.8 *
\* 0.75 is the threshold 0.6 but for the rounding; thresholds 0.5 and 0.25
\* smoothed by 0.5, where every smoothed value is exact and the thresholds
\* themselves are reached.  The gate is null or -20 dBFS.
ClsOpts ==
  { [SmallOpts EXCEPT !.minSpeechFrames = 1, !.probSmoothing = 2],
    [SmallOpts EXCEPT !.minSpeechFrames = 1, !.energyGateDb = <<-20>>],
    [SmallOpts EXCEPT !.energyGateDb = <<-20>>, !.probSmoothing = 2],
    [SmallOpts EXCEPT !.minSpeechFrames = 1, !.probSmoothing = 5,
                      !.energyGateDb = <<-20>>,
                      !.positiveSpeechThreshold = PScale \div 2,
                      !.negativeSpeechThreshold = PScale \div 4] }

InitCls == InitWith(ClsOpts)

ClsPush ==
  \E cls \in [FrameIdxRange(1) -> ClsAnyOutcomes] :
    ProcessAudioWith(HOP_SIZE, cls, MaxClsFrames, "last")

SpecCls == InitCls /\ [][ClsPush]_vars

\* Whether the rms level of a frame is at least db dBFS (db a multiple of 10,
\* db <= 0): the mean square is at least 10^(db/10).
LevelReaches(data, db) ==
  SumSq(data) >= (HOP_SIZE * AmpScale * AmpScale - 1) \div Pow10((0 - db) \div 10) + 1

\* C9: a frame counts as voice (voiceRun is incremented) iff the classifier
\* returned flag 1, the energy gate is open (no gate configured, or the frame's
\* level is at least energyGateDb) and the smoothed probability is at least
\* negativeSpeechThreshold when the machine was in Speech, positiveSpeechThreshold
\* when it was in Silence; a frame that does not count as voice resets voiceRun
\* and does not open a segment.
C9_VoiceDecision ==
  [][frameIndex' = frameIndex + 1 =>
       LET flagOn == lastCls'.rc = 0 /\ lastCls'.flag = 1
           thr == IF inSpeech THEN cfg.negativeSpeechThreshold
                  ELSE cfg.positiveSpeechThreshold
           gateOpen == \/ cfg.energyGateDb = Null
                       \/ LevelReaches(lastFrame', cfg.energyGateDb[1])
           counted == voiceRun' = voiceRun + 1
       IN /\ counted <=> (flagOn /\ gateOpen /\ DoubleGeq(pSmoothed', Double(thr, PScale)))
          /\ ~counted => /\ voiceRun' = 0
                         /\ \/ events' = events
                            \/ IsTerminal(events'[Len(events')])]_vars

\* With a gate of -20 dBFS, open on both frames, and smoothing 0.5, a first
\* frame answered 1 brought the smoothed probability to the positive threshold
\* 0.5 and opened a segment; a second, answered 0, brought it to the negative
\* threshold 0.25 and counted as voice.
C9_Witness ==
  /\ cfg.energyGateDb = <<-20>>
  /\ cfg.probSmoothing = 5
  /\ frameIndex = 2
  /\ lastCls = ClsAnswer(1, 0)
  /\ pSmoothed = Double(cfg.negativeSpeechThreshold, PScale)
  /\ inSpeech
  /\ voiceRun = 2

(***************************************************************************)
(* SpecThreshold: from a fresh instance, every frame answered flag 1 and   *)
(* the positive threshold as raw probability                               *)
(***************************************************************************)
\* Frames one run of SpecThreshold processes.
MaxThresholdFrames == 26

\* Positive thresholds that a Float32 can equal: 0.5 and 1.
ThresholdOpts ==
  { [DefaultOpts EXCEPT !.probSmoothing = a, !.minSpeechFrames = n,
                        !.positiveSpeechThreshold = pos] :
      a \in {0, 2}, n \in {1, 2, 3, MaxThresholdFrames}, pos \in {PScale \div 2, PScale} }

InitThreshold == InitWith(ThresholdOpts)

ThresholdPush ==
  \E len \in ChunkLens :
    ProcessAudioWith(len,
      [k \in FrameIdxRange(FramesOf(len)) |-> ClsAnswer(1, cfg.positiveSpeechThreshold)],
      MaxThresholdFrames, "none")

SpecThreshold == InitThreshold /\ [][ThresholdPush]_vars

\* C10 as stated: for the default probSmoothing as for probSmoothing 0, the
\* minSpeechFrames-th frame at the threshold has made exactly one onSpeechStart.
C10_StartAtThresholdAnySmoothing ==
  frameIndex >= cfg.minSpeechFrames => (Len(events) = 1 /\ IsStart(events[1]))

\* C10, amended: with probSmoothing 0 there is no onSpeechStart before the
\* minSpeechFrames-th frame and exactly one from that frame on; with
\* probSmoothing 0.2 (smoothed value starting at 0) the first frame leaves the
\* smoothed probability below the threshold and does not count as voice, so
\* that on each of the first minSpeechFrames frames the run of voice frames is
\* shorter than minSpeechFrames and no onSpeechStart is made.
C10_StartAtThreshold ==
  /\ cfg.probSmoothing = 0 =>
       IF frameIndex >= cfg.minSpeechFrames
       THEN Len(events) = 1 /\ IsStart(events[1])
       ELSE events = << >>
  /\ (cfg.probSmoothing = 2 /\ frameIndex <= cfg.minSpeechFrames) =>
       /\ events = << >>
       /\ frameIndex > 0 => voiceRun < frameIndex
       /\ frameIndex = 1 =>
            ~DoubleGeq(pSmoothed, Double(cfg.positiveSpeechThreshold, PScale))

\* Unsmoothed, the third frame at a threshold of 0.5, which the classifier's
\* Float32 equals, opened the segment.
C10_Witness ==
  /\ cfg.probSmoothing = 0
  /\ cfg.minSpeechFrames = 3
  /\ frameIndex = 3
  /\ Float(cfg.positiveSpeechThreshold, PScale) = Double(cfg.positiveSpeechThreshold, PScale)
  /\ pSmoothed = Double(cfg.positiveSpeechThreshold, PScale)
  /\ Len(events) = 1 /\ IsStart(events[1])

(***************************************************************************)
(* SpecLifecycle: any thresholds; the instance handed over loaded, or      *)
(* constructed with its load under way; valid and invalid processAudio    *)
(* calls, flush, the end of the load and destroy in any order             *)
(***************************************************************************)
\* Frames one run of SpecLifecycle processes.
MaxLifeFrames == 3

\* Configured thresholds: below 0, inside [0,1], above 1.
ThresholdValues == {0 - PScale \div 2, (4 * PScale) \div 10, (6 * PScale) \div 10,
                    (3 * PScale) \div 2}

LifecycleOpts ==
  { [SmallOpts EXCEPT !.positiveSpeechThreshold = p, !.negativeSpeechThreshold = n] :
      p \in ThresholdValues, n \in ThresholdValues }

\* Types of argument that are not a Float32Array.
OtherTypes == {"Array", "Int16Array"}

InvalidCalls == {"processAudio(" \o ty \o ")" : ty \in OtherTypes}

LifeScript == [k \in 0..MaxLifeFrames |-> ChunkScript(k)]

InitLifecycle == InitWith(LifecycleOpts) \/ InitLoading(LifecycleOpts)

LifePush ==
  /\ pushed < MaxLifeFrames * HOP_SIZE
  /\ \E len \in {HOP_SIZE \div 2, HOP_SIZE} :
       ProcessAudioWith(len, LifeScript, MaxLifeFrames, "none")

LifePushInvalid ==
  \E ty \in OtherTypes : \E len \in {HOP_SIZE \div 2, HOP_SIZE} :
    ProcessAudioInvalidWith(ty, len, LifeScript, MaxLifeFrames)

LifeFlush == FlushWith(LifeScript, MaxLifeFrames, "none")

NextLifecycle == LifePush \/ LifePushInvalid \/ LifeFlush \/ Load \/ Destroy

SpecLifecycle == InitLifecycle /\ [][NextLifecycle]_vars

\* A configured threshold brought into [0,1].
InUnit(x) == IF x < 0 THEN 0 ELSE IF x > PScale THEN PScale ELSE x

\* C11: after construction, and after any processAudio, flush and destroy
\* calls, the effective thresholds are the configured ones clamped to [0,1],
\* swapped if the clamped negative exceeds the clamped positive, so that
\* negativeSpeechThreshold <= positiveSpeechThreshold.
C11_ThresholdsOrdered ==
  LET p == InUnit(opts.positiveSpeechThreshold)
      n == InUnit(opts.negativeSpeechThreshold)
  IN /\ cfg.negativeSpeechThreshold <= cfg.positiveSpeechThreshold
     /\ 0 <= cfg.negativeSpeechThreshold /\ cfg.positiveSpeechThreshold <= PScale
     /\ cfg.positiveSpeechThreshold = (IF n > p THEN n ELSE p)
     /\ cfg.negativeSpeechThreshold = (IF n > p THEN p ELSE n)

\* Configured with negative 0.6 above positive 0.4, the instance has processed
\* frames, made callbacks and been destroyed.
C11_Witness ==
  /\ opts.negativeSpeechThreshold = (6 * PScale) \div 10
  /\ opts.positiveSpeechThreshold = (4 * PScale) \div 10
  /\ cfg.positiveSpeechThreshold = (6 * PScale) \div 10
  /\ frameIndex > 0
  /\ events # << >>
  /\ destroyed
  /\ module = "null"

\* The fields of the instance that segmentation reads and writes.
SegState ==
  <<floatBuf, lastSampleForPreEmph, pSmoothed, frameIndex, inSpeech, voiceRun,
    silenceRun, ring, currentSegment, postPadCountdown>>

\* C14: a processAudio call whose argument is not a Float32Array throws and
\* changes nothing: no frame is processed, no callback is made, the remainder
\* and the segmentation state are as before the call.
C14_InvalidInputRejected ==
  [][lastOp' \in InvalidCalls =>
       /\ thrown' = "Error"
       /\ UNCHANGED <<SegState, events, lastFrame, module>>]_vars

\* An invalid call was rejected in the middle of a segment, with a remainder held.
C14_Witness ==
  /\ lastOp \in InvalidCalls
  /\ thrown = "Error"
  /\ module = "loaded"
  /\ inSpeech
  /\ floatBuf # << >>
  /\ frameIndex > 0

\* C15: after destroy(), every processAudio call with a Float32Array throws,
\* changes no state and makes no callback.
C15_DestroyedRejectsPush ==
  [][(destroyed /\ lastOp' = "processAudio") =>
       /\ thrown' # "none"
       /\ UNCHANGED <<SegState, events>>]_vars

(***************************************************************************)
(* SpecErr: calls of up to two frames, any classifier answer or error, all *)
(* the answers of a call recorded                                          *)
(***************************************************************************)
\* Frames one run of SpecErr processes.
MaxErrFrames == 4

InitErr ==
  InitWith({SmallOpts, [SmallOpts EXCEPT !.preSpeechPadMs = 32, !.minSpeechFrames = 1]})

ErrPush ==
  \E len \in ChunkLens :
    \E cls \in [FrameIdxRange(FramesOf(len)) -> ClsOutcomes] :
      ProcessAudioWith(len, cls, MaxErrFrames, "all")

SpecErr == InitErr /\ [][ErrPush]_vars

\* C12: a processAudio call does not throw and processes every frame it
\* completes, in order; a frame the classifier fails on advances the machine
\* once as a non-voice frame: the frame index grows by one, voiceRun is reset,
\* silenceRun grows by one, the smoothed probability is kept, the frame is the
\* newest of the pre-pad ring and, in Speech, the frame is appended to the
\* active segment, which either stays open or is closed with that frame as its
\* last (silenceRun having reached minSilenceFrames).
C12_ErrorIsNonVoice ==
  [][lastOp' = "processAudio" =>
       LET combined == F32Concat(floatBuf, SignalSlice(pushed, pushed' - pushed))
           n == F32Len(combined) \div HOP_SIZE
           After(i) == FrameLoop(cfg, St, combined, 0, i, lastCls')
       IN /\ thrown' = "none"
          /\ frameIndex' = frameIndex + n
          /\ events' = After(n).events
          /\ n > 0 => lastFrame' = F32Subarray(combined, (n - 1) * HOP_SIZE, n * HOP_SIZE)
          /\ \A i \in 0..(n - 1) :
               lastCls'[frameIndex + i].rc # 0 =>
                 LET a == After(i)
                     b == After(i + 1)
                     frame == [data |-> F32Subarray(combined, i * HOP_SIZE, (i + 1) * HOP_SIZE),
                               idx |-> frameIndex + i, voice |-> FALSE]
                     seg == Append(a.currentSegment, frame)
                 IN /\ b.frameIndex = a.frameIndex + 1
                    /\ b.voiceRun = 0
                    /\ b.silenceRun = a.silenceRun + 1
                    /\ b.pSmoothed = a.pSmoothed
                    /\ cfg.ringMax > 0 =>
                         (b.ring # << >> /\ b.ring[Len(b.ring)] = frame
                          /\ Len(b.ring) <= cfg.ringMax)
                    /\ ~a.inSpeech => (~b.inSpeech /\ b.events = a.events)
                    /\ a.inSpeech =>
                         \/ b.inSpeech /\ b.currentSegment = seg /\ b.events = a.events
                         \/ /\ ~b.inSpeech
                            /\ b.silenceRun >= cfg.minSilenceFrames
                            /\ Len(b.events) = Len(a.events) + 1
                            /\ IsTerminal(b.events[Len(b.events)])
                            /\ b.events[Len(b.events)].frames = FrameIdxs(seg)]_vars

\* In one call of two frames, the classifier failed on the first, in Speech,
\* and the second was processed as voice and appended after it.
C12_Witness ==
  /\ lastOp = "processAudio"
  /\ frameIndex >= 3
  /\ (frameIndex - 2) \in DOMAIN lastCls
  /\ lastCls[frameIndex - 2].rc # 0
  /\ lastCls[frameIndex - 1] = ClsVoice
  /\ inSpeech
  /\ Len(currentSegment) >= 3
  /\ FrameVoice(currentSegment)[Len(currentSegment) - 1] = FALSE
  /\ FrameIdxs(currentSegment)[Len(currentSegment)] = frameIndex - 1

(***************************************************************************)
(* SpecCallback: callbacks that throw or return; one stream, one           *)
(* classifier script, any chunking, and at most one flush, at the end      *)
(***************************************************************************)
\* Frames one run of SpecCallback processes.
MaxCbFrames == 6

\* What a callback given to the constructor does when it is called.
CallbackKinds == {"returns", "throws"}

CallbackOpts ==
  { [SmallOpts EXCEPT !.onSpeechStart = a, !.onSpeechEnd = b, !.onVADMisfire = c] :
      a \in CallbackKinds, b \in CallbackKinds, c \in CallbackKinds }

CbScript == [k \in 0..MaxCbFrames |-> ChunkScript(k)]

InitCallback == InitWith(CallbackOpts)

CbPush ==
  /\ ~AfterFlush
  /\ \E len \in ChunkLens : ProcessAudioWith(len, CbScript, MaxCbFrames, "none")

CbFlush ==
  /\ ~AfterFlush
  /\ FlushWith(CbScript, MaxCbFrames, "none")

NextCallback == CbPush \/ CbFlush

SpecCallback == InitCallback /\ [][NextCallback]_vars

\* The same options with callbacks that return normally.
ReturningCfg ==
  Constructor([opts EXCEPT !.onSpeechStart = "returns", !.onSpeechEnd = "returns",
                           !.onVADMisfire = "returns"])

\* The run on the same stream in which every callback returns normally.
ReturningRun ==
  LET r == ProcessAudioOp(ReturningCfg, LoadVADModule(NewState, "resolved"),
                          SignalPrefix(pushed), CbScript)
  IN IF AfterFlush THEN FlushOp(ReturningCfg, r, CbScript) ELSE r

\* A state with the record of which callbacks threw erased.
ThrewErased(s) ==
  [s EXCEPT !.events = [i \in 1..Len(s.events) |-> [s.events[i] EXCEPT !.threw = FALSE]]]

\* C13: whatever the callbacks throw, processAudio and flush do not throw, and
\* the state they leave (remainder, counters, ring, active segment, frame
\* index) and the callbacks made, with their payloads, are those of the run in
\* which every callback returned normally; after an onSpeechStart the frame
\* that triggered it is the last of the active segment.
C13_CallbacksIsolated ==
  /\ thrown = "none"
  /\ ThrewErased(St) = ReturningRun
  /\ (events # << >> /\ IsStart(events[Len(events)])
        /\ events[Len(events)].at = frameIndex - 1) =>
       (inSpeech /\ currentSegment # << >>
        /\ currentSegment[Len(currentSegment)].idx = frameIndex - 1)

\* Each of the three callbacks was made and threw, and frames were processed
\* after the first of them.
C13_Witness ==
  /\ Len(events) >= 4
  /\ \A i \in 1..Len(events) : events[i].threw
  /\ \E i, j \in 1..Len(events) :
       events[i].cb = "onSpeechEnd" /\ events[j].cb = "onVADMisfire"
  /\ AfterFlush

(***************************************************************************)
(* SpecPad: one frame per call, voice or non-voice, over configurations of *)
(* the onset and padding tunables                                          *)
(***************************************************************************)
\* Frames one run of SpecPad processes.
MaxPadFrames == 6

\* minSpeechFrames 1..3 with 0..2 pre-pad frames, and 0..3 post-pad frames
\* with minSilenceFrames 1..3.
PadOpts ==
  { [SmallOpts EXCEPT !.minSpeechFrames = m, !.preSpeechPadMs = pre,
                      !.minSilenceFrames = 1, !.minSpeechMs = 0] :
      m \in {1, 2, 3}, pre \in {0, 16, 32} }
  \cup
  { [SmallOpts EXCEPT !.minSpeechFrames = 1, !.preSpeechPadMs = 0,
                      !.postSpeechPadMs = post, !.minSilenceFrames = sil,
                      !.minSpeechMs = 0] :
      post \in {0, 16, 32, 48}, sil \in {1, 2, 3} }

InitPad == InitWith(PadOpts)

PadPush ==
  \E cls \in [FrameIdxRange(1) -> {ClsSilent, ClsVoice}] :
    ProcessAudioWith(HOP_SIZE, cls, MaxPadFrames, "last")

SpecPad == InitPad /\ [][PadPush]_vars

\* The number of non-voice decisions at the end of a list of decisions.
RECURSIVE TrailingNonVoice(_)
TrailingNonVoice(v) ==
  IF v = << >> \/ v[Len(v)] THEN 0
  ELSE 1 + TrailingNonVoice(SubSeq(v, 1, Len(v) - 1))

\* C16: every segment that processAudio closes ends with at least
\* postPadFrames consecutive non-voice frames after its last voice frame.
C16_PostPadIncluded ==
  \A i \in 1..Len(events) :
    IsTerminal(events[i]) => TrailingNonVoice(events[i].voice) >= cfg.postPadFrames

\* C17: at an onSpeechStart the active segment holds every frame of the voice
\* run that triggered it, from the run's first frame on, and the frames before
\* the run, up to prePadFrames of them or as many as the stream provided.
C17_SegmentHoldsVoiceRun ==
  [][(Len(events') = Len(events) + 1 /\ IsStart(events'[Len(events')])) =>
       LET first == frameIndex - cfg.minSpeechFrames + 1
           oldest == Max(0, first - cfg.prePadFrames)
       IN \A k \in oldest..frameIndex :
            \E j \in 1..Len(currentSegment') : currentSegment'[j].idx = k]_vars

\* C19: in Speech, a non-voice frame closes the segment iff it is the
\* max(minSilenceFrames, postPadFrames)-th consecutive non-voice frame since
\* the last voice frame, never an earlier one and never a later one.
C19_CloseTiming ==
  [][(inSpeech /\ frameIndex' = frameIndex + 1 /\ voiceRun' = 0) =>
       (~inSpeech' <=> (silenceRun' = Max(cfg.minSilenceFrames, cfg.postPadFrames)))]_vars

(***************************************************************************)
(* Properties of onsets and of the pre-pad ring, checked under Spec        *)
(***************************************************************************)
\* C18: every onSpeechStart after the first is made on the last of
\* minSpeechFrames frames that all came after the frames of the segment closed
\* before it; after a flush() that closed a segment, one voice frame does not
\* open a segment when minSpeechFrames > 1.
C18_OnsetDebounced ==
  \A i \in 2..Len(events) :
    IsStart(events[i]) =>
      \A j \in 1..Len(events[i - 1].frames) :
        events[i - 1].frames[j] < events[i].at - cfg.minSpeechFrames + 1

\* C20: no input frame is in two closed segments.
C20_SegmentsDisjoint ==
  \A i, j \in 1..Len(events) :
    (i < j /\ IsTerminal(events[i]) /\ IsTerminal(events[j])) =>
      \A a \in 1..Len(events[i].frames) : \A b \in 1..Len(events[j].frames) :
        events[i].frames[a] >= 0 => events[i].frames[a] # events[j].frames[b]

(***************************************************************************)
(* SpecDrain: pre-pad and post-pad of any size; short and whole chunks,    *)
(* voice or non-voice, and flush, all the answers of a call recorded       *)
(***************************************************************************)
\* Frames one run of SpecDrain processes.
MaxDrainFrames == 4

\* preSpeechPadMs negative, 0, rounding down to 0 and up to 1, 1.5 and 2.5
\* frames; postSpeechPadMs of 0, 1 and 3 frames.
DrainOpts ==
  { [SmallOpts EXCEPT !.minSpeechFrames = 1, !.minSpeechMs = 40,
                      !.preSpeechPadMs = pre, !.postSpeechPadMs = post] :
      pre \in {0 - 16, 0, 7, 8, 24, 40, 8008}, post \in {0, 16, 48} }

InitDrain == InitWith(DrainOpts)

DrainPush ==
  \E len \in {HOP_SIZE \div 2, HOP_SIZE} :
    \E cls \in [FrameIdxRange(FramesOf(len)) -> {ClsSilent, ClsVoice}] :
      ProcessAudioWith(len, cls, MaxDrainFrames, "all")

DrainFlush ==
  \E cls \in [FrameIdxRange(FlushFrames) -> {ClsSilent, ClsVoice}] :
    FlushWith(cls, MaxDrainFrames, "all")

NextDrain == DrainPush \/ DrainFlush

SpecDrain == InitDrain /\ [][NextDrain]_vars

\* C21: prePadFrames is round(preSpeechPadMs / 16), the nearest integer with
\* halves upward, and the ring's capacity is that number, or 0 if it is
\* negative; the ring holds the last frames processed, as many as the capacity
\* allows, oldest first; with capacity 0 it is empty.
C21_RingHoldsLatest ==
  LET round == (opts.preSpeechPadMs + 8) \div 16
      cap == IF round < 0 THEN 0 ELSE round
  IN /\ cfg.prePadFrames = round
     /\ cfg.ringMax = cap
     /\ Len(ring) = (IF frameIndex < cap THEN frameIndex ELSE cap)
     /\ \A j \in 1..Len(ring) : ring[j].idx = frameIndex - Len(ring) + j - 1
     /\ cap = 0 => ring = << >>

\* The silent frame flush() synthesizes.
SilentFrame == [data |-> F32Zeros(HOP_SIZE), idx |-> -1, voice |-> FALSE]

\* The state after k iterations of the force-close loop from state s.
RECURSIVE LoopIter(_, _)
LoopIter(s, k) ==
  IF k = 0 THEN s ELSE FinalizeWithFrame(cfg, LoopIter(s, k - 1), SilentFrame, TRUE)

\* C22: flush() returns; with a segment open once the remainder has been
\* processed and postPadFrames = N > 0, it appends exactly N silent frames to
\* the segment, the countdown being N - k after the k-th, and makes one
\* terminal callback, on the N-th; with no segment open it synthesizes no
\* frame and makes no callback.
C22_FlushTerminates ==
  [][lastOp' \in {"flush", "flush;flush"} =>
       LET mid == IF F32Len(floatBuf) > 0
                  THEN [ProcessAudioOp(cfg, St, FlushPad(floatBuf), lastCls')
                          EXCEPT !.floatBuf = << >>]
                  ELSE St
           N == cfg.postPadFrames
           armed == [mid EXCEPT !.postPadCountdown = N]
           seg == mid.currentSegment \o [k \in 1..N |-> SilentFrame]
           last == events'[Len(events')]
       IN /\ thrown' = "none"
          /\ frameIndex' = mid.frameIndex
          /\ (mid.inSpeech /\ N > 0) =>
               /\ \A k \in 1..(N - 1) :
                    /\ LoopIter(armed, k).inSpeech
                    /\ LoopIter(armed, k).postPadCountdown = N - k
                    /\ LoopIter(armed, k).events = mid.events
                    /\ LoopIter(armed, k).currentSegment =
                         mid.currentSegment \o [i \in 1..k |-> SilentFrame]
               /\ ~inSpeech' /\ currentSegment' = << >> /\ postPadCountdown' = 0
               /\ Len(events') = Len(mid.events) + 1
               /\ SubSeq(events', 1, Len(mid.events)) = mid.events
               /\ IsTerminal(last)
               /\ last.frames = FrameIdxs(seg)
               /\ last.cb = "onSpeechEnd" => last.seg = ConcatFrames(seg)
          /\ ~mid.inSpeech =>
               /\ events' = mid.events
               /\ ~inSpeech' /\ currentSegment' = << >>
               /\ postPadCountdown' = mid.postPadCountdown]_vars

\* A flush() with a remainder to process closed an open segment with 3 silent
\* frames and delivered it.
C22_Witness ==
  /\ lastOp = "flush"
  /\ cfg.postPadFrames = 3
  /\ pushed % HOP_SIZE # 0
  /\ events # << >>
  /\ events[Len(events)].cb = "onSpeechEnd"
  /\ Len(events[Len(events)].frames) >= 4
  /\ SubSeq(events[Len(events)].frames, Len(events[Len(events)].frames) - 2,
            Len(events[Len(events)].frames)) = <<-1, -1, -1>>
  /\ F32Len(events[Len(events)].seg) = Len(events[Len(events)].frames) * HOP_SIZE

=============================================================================
